---- MODULE Spec2Model ----
(***************************************************************************)
(* lark-cli: the document service (src/src/larkDocService.js) and the CLI  *)
(* handlers that drive it (src/src/cli.js).                                *)
(*                                                                         *)
(* A text is a run-length encoded JavaScript string: a sequence of runs    *)
(* [ch, n], n >= 1 copies of one character class.  "x" is any character    *)
(* other than a line terminator, "LF" is \n, "CR" is \r, and "o" is a      *)
(* character of content that was in a document before the operation.      *)
(***************************************************************************)
EXTENDS Integers, Sequences, FiniteSets, TLC

\* ------------------------------------------------------------------ bounds
MaxTokens == 2          \* runs in a text handed to the service
MaxNewlines == 119      \* longest run of \n in a text handed to the service
MaxExisting == 2        \* children the root container holds before the operation
BuilderMaxTokens == 3   \* runs in a text handed to the Block Builder alone
MaxIds == 2             \* block ids a conversion response may define
MaxCollaborators == 3   \* collaborator entries given to the create command

\* ------------------------------------------------------- program constants
MAX_CHUNK_SIZE == 10000
MAX_BLOCKS_PER_CALL == 50

\* -------------------------------------------------------------------- text
Min(a, b) == IF a <= b THEN a ELSE b

Run(c, k) == [ch |-> c, n |-> k]

RECURSIVE Length(_)
\* String.prototype.length
Length(s) == IF s = <<>> THEN 0 ELSE Head(s).n + Length(Tail(s))

RECURSIVE Substring(_, _, _)
\* String.prototype.substring(start, end) for 0 <= start <= end <= length
Substring(s, start, end) ==
  IF s = <<>> \/ end <= 0 \/ start >= end THEN <<>>
  ELSE LET h == Head(s)
           lo == IF start < 0 THEN 0 ELSE start
           hi == Min(end, h.n)
           rest == Substring(Tail(s), start - h.n, end - h.n)
       IN IF lo < hi THEN <<Run(h.ch, hi - lo)>> \o rest ELSE rest

\* the line collected so far, less the \r that the separator /\r?\n/ takes
DropCR(cur) ==
  IF cur # <<>> /\ cur[Len(cur)].ch = "CR"
  THEN IF cur[Len(cur)].n = 1
       THEN SubSeq(cur, 1, Len(cur) - 1)
       ELSE SubSeq(cur, 1, Len(cur) - 1) \o <<Run("CR", cur[Len(cur)].n - 1)>>
  ELSE cur

RECURSIVE SplitRec(_, _, _, _)
SplitRec(s, k, done, cur) ==
  IF k > Len(s) THEN Append(done, cur)
  ELSE IF s[k].ch = "LF"
       THEN SplitRec(s, k + 1,
                     Append(done, DropCR(cur)) \o [j \in 1..(s[k].n - 1) |-> <<>>],
                     <<>>)
       ELSE SplitRec(s, k + 1, done, Append(cur, s[k]))

\* text.split(/\r?\n/)
SplitLines(s) == SplitRec(s, 1, <<>>, <<>>)

\* ----------------------------------------------------------- Block Builder
\* a paragraph block; content is text.elements[0].text_run.content
Paragraph(c) == [block_type |-> 2, content |-> c]

RECURSIVE ChunkLoop_skip(_, _)
\* the loop resumes one character past the end of the chunk
ChunkLoop_skip(line, start) ==
  IF start < Length(line)
  THEN LET end == Min(start + MAX_CHUNK_SIZE, Length(line))
       IN <<Paragraph(Substring(line, start, end))>> \o ChunkLoop_skip(line, end + 1)
  ELSE <<>>

RECURSIVE ChunkLoop_short(_, _)
\* the chunks are cut one character short of the limit
ChunkLoop_short(line, start) ==
  IF start < Length(line)
  THEN LET end == Min(start + MAX_CHUNK_SIZE - 1, Length(line))
       IN <<Paragraph(Substring(line, start, end))>> \o ChunkLoop_short(line, end)
  ELSE <<>>

RECURSIVE ChunkLoop(_, _)
\* the while loop of toParagraphBlock, from `start`
ChunkLoop(line, start) ==
  IF start < Length(line)
  THEN LET end == Min(start + MAX_CHUNK_SIZE, Length(line))
       IN <<Paragraph(Substring(line, start, end))>> \o ChunkLoop(line, end)
  ELSE <<>>

\* toParagraphBlock forgets the limit test and emits the line whole
toParagraphBlock_nosplit(line) == <<Paragraph(line)>>

\* toParagraphBlock(line); a single block is returned as a one-element list,
\* which is what processTextToBlocks makes of it
toParagraphBlock(line) ==
  IF Length(line) <= MAX_CHUNK_SIZE
  THEN <<Paragraph(line)>>
  ELSE ChunkLoop(line, 0)

RECURSIVE FlatMapLines(_, _, _)
\* the for loop of processTextToBlocks over lines[lo..hi], in order (halved, so
\* that the evaluation depth stays logarithmic in the number of lines)
FlatMapLines(lines, lo, hi) ==
  IF lo > hi THEN <<>>
  ELSE IF lo = hi THEN toParagraphBlock(lines[lo])
  ELSE LET mid == (lo + hi) \div 2
       IN FlatMapLines(lines, lo, mid) \o FlatMapLines(lines, mid + 1, hi)

processTextToBlocks(text) ==
  LET lines == SplitLines(text) IN FlatMapLines(lines, 1, Len(lines))

\* --------------------------------------------------------------- inputs
\* normalised texts: at most k runs drawn from toks, adjacent runs differing
RECURSIVE TextsOver(_, _)
TextsOver(toks, k) ==
  IF k = 0 THEN {<<>>}
  ELSE LET shorter == TextsOver(toks, k - 1)
       IN shorter \cup
          {Append(s, t) : s \in {u \in shorter : Len(u) = k - 1}, t \in toks}

Normalised(s) == \A j \in 1..(Len(s) - 1) : s[j].ch # s[j + 1].ch

BuilderTokens ==
  {Run("x", k) : k \in {1, MAX_CHUNK_SIZE - 1, MAX_CHUNK_SIZE, MAX_CHUNK_SIZE + 1,
                        2 * MAX_CHUNK_SIZE, 2 * MAX_CHUNK_SIZE + 1}}
    \cup {Run("CR", k) : k \in {1, 2}}
    \cup {Run("LF", k) : k \in {1, 2}}

BuilderTexts == {s \in TextsOver(BuilderTokens, BuilderMaxTokens) : Normalised(s)}

\* texts handed to createDocument / appendDocumentContent: N newlines make
\* N + 1 lines, so these give 1, 2, 50, 51, 100 and MaxNewlines + 1 blocks
ServiceTokens ==
  {Run("x", 1)}
    \cup {Run("LF", k) : k \in {1, MAX_BLOCKS_PER_CALL - 1, MAX_BLOCKS_PER_CALL,
                                2 * MAX_BLOCKS_PER_CALL - 1, MaxNewlines}}

ServiceTexts == {s \in TextsOver(ServiceTokens, MaxTokens) : Normalised(s)}

\* ----------------------------------------------------- Block-Tree Reshaper
\* a raw block of a conversion response
RawBlock(id, kids) ==
  [block_id |-> id, parent_id |-> 0, block_type |-> 2,
   content |-> <<Run("x", id)>>, children |-> kids]

\* the reduce of _reshapeConvertedBlocks: block_id -> the last block carrying it
BlockMap(arr) ==
  [id \in {arr[k].block_id : k \in 1..Len(arr)} |->
     arr[CHOOSE k \in 1..Len(arr) :
           /\ arr[k].block_id = id
           /\ \A j \in (k + 1)..Len(arr) : arr[j].block_id # id]]

RECURSIVE Overflows(_, _, _)
\* buildBlock(id) never returns: a path of resolving ids longer than the map
\* has ids repeats one, so the recursion runs until the call stack is exhausted
Overflows(map, id, depth) ==
  IF id \notin DOMAIN map THEN FALSE
  ELSE IF depth > Cardinality(DOMAIN map) THEN TRUE
  ELSE \E k \in 1..Len(map[id].children) :
         Overflows(map, map[id].children[k], depth + 1)

RECURSIVE buildBlock(_, _)
RECURSIVE BuildAll(_, _)
\* buildBlock attaches the child list whether or not a child resolved
buildBlock_always(map, id) ==
  IF id \notin DOMAIN map THEN <<>>
  ELSE <<[block_type |-> map[id].block_type, content |-> map[id].content,
          children |-> BuildAll(map, map[id].children)]>>

\* buildBlock(blockId): <<>> is null, <<b>> the sanitized block
buildBlock(map, id) ==
  IF id \notin DOMAIN map THEN <<>>
  ELSE LET block == map[id]
           childBlocks == BuildAll(map, block.children)
       IN IF childBlocks # <<>>
          THEN <<[block_type |-> block.block_type, content |-> block.content,
                  children |-> childBlocks]>>
          ELSE <<[block_type |-> block.block_type, content |-> block.content]>>

\* ids.map((id) => buildBlock(id)).filter(Boolean)
BuildAll(map, ids) ==
  IF ids = <<>> THEN <<>>
  ELSE buildBlock(map, Head(ids)) \o BuildAll(map, Tail(ids))

\* _reshapeConvertedBlocks throws: destructuring null, or a RangeError from
\* unbounded recursion
ReshapeThrows(resp) ==
  \/ resp.kind = "nulldata"
  \/ /\ resp.kind = "data"
     /\ \E k \in 1..Len(resp.first) : Overflows(BlockMap(resp.blocks), resp.first[k], 1)

\* _reshapeConvertedBlocks(response?.data), when it returns
reshapeConvertedBlocks(resp) ==
  IF resp.kind # "data" \/ resp.first = <<>> THEN <<>>
  ELSE BuildAll(BlockMap(resp.blocks), resp.first)

\* _convertContentToBlocks returns whatever the reshaper made, empty or not
convertContentToBlocks_nofallback(text, resp) ==
  IF resp.kind = "throw" \/ ReshapeThrows(resp)
  THEN processTextToBlocks(text)
  ELSE reshapeConvertedBlocks(resp)

\* _convertContentToBlocks(content), the conversion call answering resp
convertContentToBlocks(text, resp) ==
  IF resp.kind = "throw" \/ ReshapeThrows(resp)
  THEN processTextToBlocks(text)
  ELSE LET normalizedBlocks == reshapeConvertedBlocks(resp)
       IN IF normalizedBlocks # <<>> THEN normalizedBlocks
          ELSE processTextToBlocks(text)

Response(k, b, f) == [kind |-> k, blocks |-> b, first |-> f]

NoResponse == Response("none", <<>>, <<>>)

\* what docx.document.convert may answer: a thrown error, a response without
\* data, null data, and data that reshapes to nothing, to a flat block, to a
\* nested block with a dangling child, or that refers to itself
ConvertResponses ==
  {Response("throw", <<>>, <<>>),
   Response("nodata", <<>>, <<>>),
   Response("nulldata", <<>>, <<>>),
   Response("data", <<>>, <<1>>),
   Response("data", <<RawBlock(1, <<>>)>>, <<>>),
   Response("data", <<RawBlock(1, <<>>)>>, <<1>>),
   Response("data", <<RawBlock(1, <<2, 3>>), RawBlock(2, <<>>)>>, <<1, 3>>),
   Response("data", <<RawBlock(1, <<1>>)>>, <<1>>)}

\* ------------------------------------------------------------ remote side
\* a paragraph that was in the document before the operation
OldBlock(k) == Paragraph(<<Run("o", k)>>)

OldChildren(n) == [k \in 1..n |-> OldBlock(k)]

\* the document the operation works on, as the remote holds it
RemoteDoc(p, c) == [exists |-> TRUE, hasPage |-> p, children |-> c,
                    deleted |-> FALSE, inWiki |-> FALSE]

NoRemoteDoc == [exists |-> FALSE, hasPage |-> FALSE, children |-> <<>>,
                deleted |-> FALSE, inWiki |-> FALSE]

RemoteDocs ==
  {RemoteDoc(FALSE, <<>>)}
    \cup {RemoteDoc(TRUE, OldChildren(n)) : n \in 0..MaxExisting}

\* the remote applies "insert these children at this index"
InsertAt(children, index, new) ==
  SubSeq(children, 1, index) \o new \o SubSeq(children, index + 1, Len(children))

\* one remote call as _logApiCall records it, with how it ended: "pending",
\* "ok", "empty" (answered without the payload asked for) or "failed" (threw)
Call(a, idx, kids, st) == [api |-> a, index |-> idx, children |-> kids, status |-> st]

\* ------------------------------------------------------------------ state
VARIABLES
  op,               \* the operation running
  pc,               \* where it is suspended
  args,             \* its arguments: hasContent, content, markdown
  document,         \* response.data.document of createDocument
  blocks,           \* the blocks to insert
  convertResponse,  \* what docx.document.convert answered
  pageBlock,        \* the listing's page block: listed, found, children
  i,                \* loop offset of the chunked insert
  currentIndex,     \* insertion index of the chunked insert
  calls,            \* the remote calls issued so far, in order
  remote,           \* the document on the remote side
  wiki,             \* moveToWiki, wikiSpaceId, wikiNodeId as line 122 reads them
  result,           \* how the operation's promise settled
  cli               \* the CLI command running, its collaborator entries, its exit

vars == <<op, pc, args, document, blocks, convertResponse, pageBlock, i,
          currentIndex, calls, remote, wiki, result, cli>>

NoValue == [undefined |-> TRUE]

Pending == [state |-> "pending", value |-> NoValue]

Resolved(v) == [state |-> "resolved", value |-> v]

Rejected(msg) == [state |-> "rejected", value |-> [error |-> msg]]

Args(h, c, m) == [hasContent |-> h, content |-> c, markdown |-> m]

NoPage == [listed |-> FALSE, found |-> FALSE, children |-> <<>>]

NoWiki == [read |-> FALSE, moveToWiki |-> FALSE, wikiSpaceId |-> FALSE,
           wikiNodeId |-> FALSE]

\* a command of cli.js: n collaborator entries (--collaborator and
\* LARK_DEFAULT_COLLABORATORS), e its exit: "running", "0" or "1"
Cli(c, n, e) == [command |-> c, collaborators |-> n, exit |-> e]

NoCli == Cli("none", 0, "running")

Idle(o, p, a) ==
  /\ op = o
  /\ pc = p
  /\ args = a
  /\ document = NoValue
  /\ blocks = <<>>
  /\ convertResponse = NoResponse
  /\ pageBlock = NoPage
  /\ i = 0
  /\ currentIndex = 0
  /\ calls = <<>>
  /\ remote = NoRemoteDoc
  /\ wiki = NoWiki
  /\ result = Pending
  /\ cli = NoCli

Init == Idle("none", "idle", Args(FALSE, <<>>, FALSE))

\* ------------------------------------------------------- Batch Dispatcher
\* blocks.slice(from, to)
Slice(blks, from, to) == SubSeq(blks, from + 1, Min(to, Len(blks)))

\* the chunk is cut one block too long
Chunk_over(blks, k) == Slice(blks, k, k + MAX_BLOCKS_PER_CALL + 1)

\* const chunk = blocks.slice(i, i + MAX_BLOCKS_PER_CALL)
Chunk(blks, k) == Slice(blks, k, k + MAX_BLOCKS_PER_CALL)

\* the index is not advanced after a batch
AdvanceIndex_stuck(cur, chunk) == cur

\* currentIndex += chunk.length
AdvanceIndex(cur, chunk) == cur + Len(chunk)

\* _insertContentToDocument takes the chunked branch
Chunked(o, blks) == o = "createDocument" /\ Len(blks) > MAX_BLOCKS_PER_CALL

\* the calls for this chunk and the next are fired together, neither awaited
IssueInsert_noawait(log, blks, k, idx) ==
  LET one == Append(log, Call("insert", idx, Chunk(blks, k), "pending"))
  IN IF k + MAX_BLOCKS_PER_CALL < Len(blks)
     THEN Append(one, Call("insert", idx + Len(Chunk(blks, k)),
                           Chunk(blks, k + MAX_BLOCKS_PER_CALL), "pending"))
     ELSE one

\* the chunk is taken from the end of what is left, not from the front
IssueInsert_backwards(log, blks, k, idx) ==
  Append(log, Call("insert", idx,
                   SubSeq(blks, Len(blks) - k - Len(Chunk(blks, k)) + 1, Len(blks) - k),
                   "pending"))

\* await documentBlockChildren.create({index: currentIndex, children: chunk})
IssueInsert(log, blks, k, idx) ==
  Append(log, Call("insert", idx, Chunk(blks, k), "pending"))

\* the single call of the unchunked branch and of _appendContentToDocument
IssueInsertAll(log, blks, idx) == Append(log, Call("insert", idx, blks, "pending"))

\* the insert call that has not been answered yet (the oldest one)
PendingCall ==
  CHOOSE k \in 1..Len(calls) :
    /\ calls[k].status = "pending"
    /\ \A j \in 1..(k - 1) : calls[j].status # "pending"

Settle(log, k, st) == [log EXCEPT ![k].status = st]

\* where the caller goes on once the insert step returns
AfterInsertPc(o) == IF o = "createDocument" THEN "wiki" ELSE "done"

AfterInsertResult(o) == IF o = "createDocument" THEN Pending ELSE Resolved(NoValue)

\* ------------------------------------------------------- Document Service
\* createDocument, up to the await of docx.document.create and its answer
createDocument ==
  /\ pc = "idle" /\ op = "none"
  /\ op' = "createDocument"
  /\ \E h \in BOOLEAN, c \in ServiceTexts, m \in BOOLEAN :
       /\ (~h => c = <<>>)
       /\ args' = Args(h, c, m)
       /\ \/ /\ calls' = <<Call("create", 0, <<>>, "failed")>>
             /\ result' = Rejected("docx.document.create failed")
             /\ pc' = "done"
             /\ UNCHANGED <<document, remote>>
          \/ /\ calls' = <<Call("create", 0, <<>>, "empty")>>
             /\ result' = Rejected("Unable to create document. Response missing document id")
             /\ pc' = "done"
             /\ UNCHANGED <<document, remote>>
          \/ /\ calls' = <<Call("create", 0, <<>>, "ok")>>
             /\ document' = [document_id |-> "doc"]
             /\ remote' \in RemoteDocs
             /\ pc' = IF h THEN "convert" ELSE "wiki"
             /\ UNCHANGED result
  /\ \E n \in 0..MaxCollaborators : cli' = Cli("create", n, "running")
  /\ UNCHANGED <<blocks, convertResponse, pageBlock, i, currentIndex, wiki>>

\* appendDocumentContent(documentId, rawText, isMarkdown) on an existing document
appendDocumentContent ==
  /\ pc = "idle" /\ op = "none"
  /\ op' = "appendDocumentContent"
  /\ remote' \in RemoteDocs
  /\ \E c \in ServiceTexts, m \in BOOLEAN :
       /\ args' = Args(TRUE, c, m)
       /\ IF c = <<>>
          THEN result' = Resolved(NoValue) /\ pc' = "done"
          ELSE result' = Pending /\ pc' = "convert"
  /\ cli' = Cli("update", 0, "running")
  /\ UNCHANGED <<document, blocks, convertResponse, pageBlock, i, currentIndex,
                 calls, wiki>>

ConvertStatus(resp) ==
  CASE resp.kind = "throw" -> "failed"
    [] resp.kind = "data" -> "ok"
    [] OTHER -> "empty"

\* step 1 of _insertContentToDocument / _appendContentToDocument
ConvertContent ==
  /\ pc = "convert"
  /\ IF args.markdown
     THEN \E resp \in ConvertResponses :
            /\ convertResponse' = resp
            /\ blocks' = convertContentToBlocks(args.content, resp)
            /\ calls' = Append(calls, Call("convert", 0, <<>>, ConvertStatus(resp)))
     ELSE /\ blocks' = processTextToBlocks(args.content)
          /\ UNCHANGED <<convertResponse, calls>>
  /\ pc' = "list"
  /\ UNCHANGED <<op, args, document, pageBlock, i, currentIndex, remote, wiki,
                 result, cli>>

\* steps 2 and 3: _getDocumentBlocks answers, the page block is looked up and
\* the first insert call is issued
GetDocumentBlocks ==
  /\ pc = "list"
  /\ \/ /\ calls' = Append(calls, Call("list", 0, <<>>, "failed"))
        /\ result' = Rejected("docx.documentBlock.list failed")
        /\ pc' = "done"
        /\ UNCHANGED <<pageBlock, i, currentIndex>>
     \/ /\ \/ calls' = Append(calls, Call("list", 0, <<>>, "empty"))
           \/ ~remote.hasPage /\ calls' = Append(calls, Call("list", 0, <<>>, "ok"))
        /\ pageBlock' = [listed |-> TRUE, found |-> FALSE, children |-> <<>>]
        /\ pc' = AfterInsertPc(op)
        /\ result' = AfterInsertResult(op)
        /\ UNCHANGED <<i, currentIndex>>
     \/ /\ remote.hasPage
        /\ pageBlock' = [listed |-> TRUE, found |-> TRUE, children |-> remote.children]
        /\ i' = 0
        /\ currentIndex' = Len(remote.children)
        /\ calls' = LET log == Append(calls, Call("list", 0, <<>>, "ok"))
                    IN IF Chunked(op, blocks)
                       THEN IssueInsert(log, blocks, 0, Len(remote.children))
                       ELSE IssueInsertAll(log, blocks, Len(remote.children))
        /\ pc' = "inserting"
        /\ UNCHANGED result
  /\ UNCHANGED <<op, args, document, blocks, convertResponse, remote, wiki, cli>>

\* documentBlockChildren.create answers; in the chunked branch the loop goes
\* on to the next chunk
InsertSucceeds ==
  /\ pc = "inserting"
  /\ \E k \in 1..Len(calls) : calls[k].status = "pending"
  /\ LET k == PendingCall
         call == calls[k]
         log == Settle(calls, k, "ok")
         next == AdvanceIndex(currentIndex, call.children)
     IN /\ remote' = [remote EXCEPT
                        !.children = InsertAt(@, Min(call.index, Len(@)), call.children)]
        /\ IF Chunked(op, blocks)
           THEN /\ i' = i + MAX_BLOCKS_PER_CALL
                /\ currentIndex' = next
                /\ IF i + MAX_BLOCKS_PER_CALL < Len(blocks)
                   THEN /\ calls' = IssueInsert(log, blocks, i + MAX_BLOCKS_PER_CALL, next)
                        /\ pc' = "inserting"
                        /\ UNCHANGED result
                   ELSE /\ calls' = log
                        /\ pc' = AfterInsertPc(op)
                        /\ result' = AfterInsertResult(op)
           ELSE /\ calls' = log
                /\ pc' = AfterInsertPc(op)
                /\ result' = AfterInsertResult(op)
                /\ UNCHANGED <<i, currentIndex>>
  /\ UNCHANGED <<op, args, document, blocks, convertResponse, pageBlock, wiki, cli>>

\* the rejection is caught around the call and the loop goes on
InsertFails_continue ==
  /\ pc = "inserting"
  /\ \E k \in 1..Len(calls) : calls[k].status = "pending"
  /\ LET log == Settle(calls, PendingCall, "failed")
     IN IF Chunked(op, blocks) /\ i + MAX_BLOCKS_PER_CALL < Len(blocks)
        THEN /\ i' = i + MAX_BLOCKS_PER_CALL
             /\ calls' = IssueInsert(log, blocks, i + MAX_BLOCKS_PER_CALL, currentIndex)
             /\ pc' = "inserting"
             /\ UNCHANGED result
        ELSE /\ calls' = log
             /\ pc' = AfterInsertPc(op)
             /\ result' = AfterInsertResult(op)
             /\ UNCHANGED i
  /\ UNCHANGED <<op, args, document, blocks, convertResponse, pageBlock,
                 currentIndex, remote, wiki, cli>>

\* documentBlockChildren.create rejects: nothing catches it before the caller
InsertFails ==
  /\ pc = "inserting"
  /\ \E k \in 1..Len(calls) : calls[k].status = "pending"
  /\ calls' = Settle(calls, PendingCall, "failed")
  /\ result' = Rejected("docx.documentBlockChildren.create failed")
  /\ pc' = "done"
  /\ UNCHANGED <<op, args, document, blocks, convertResponse, pageBlock, i,
                 currentIndex, remote, wiki, cli>>

\* the catch of createDocument rethrows
OnMoveFailed_rethrow(doc) == Rejected("Failed to move document to wiki")

\* catch (error) { console.error(...) } and then return document
OnMoveFailed(doc) == Resolved(doc)

\* { ...document, wiki_node_token: wikiNode.node_token, moved_to_wiki: true }
WikiResult(doc) ==
  [document_id |-> doc.document_id, wiki_node_token |-> "node", moved_to_wiki |-> TRUE]

\* the wiki step of createDocument up to the answer of moveDocsToWiki
MoveToWiki ==
  /\ pc = "wiki"
  /\ \E mv \in BOOLEAN, sp \in BOOLEAN, nd \in BOOLEAN :
       /\ wiki' = [read |-> TRUE, moveToWiki |-> mv, wikiSpaceId |-> sp, wikiNodeId |-> nd]
       /\ IF mv /\ sp /\ nd
          THEN \/ /\ calls' = Append(calls, Call("move", 0, <<>>, "failed"))
                  /\ result' = OnMoveFailed(document)
                  /\ pc' = "done"
                  /\ UNCHANGED remote
               \/ /\ calls' = Append(calls, Call("move", 0, <<>>, "empty"))
                  /\ result' = Resolved(document)
                  /\ pc' = "done"
                  /\ UNCHANGED remote
               \/ /\ calls' = Append(calls, Call("move", 0, <<>>, "ok"))
                  /\ remote' = [remote EXCEPT !.inWiki = TRUE]
                  /\ pc' = "delete"
                  /\ UNCHANGED result
          ELSE /\ result' = Resolved(document)
               /\ pc' = "done"
               /\ UNCHANGED <<calls, remote>>
  /\ UNCHANGED <<op, args, document, blocks, convertResponse, pageBlock, i,
                 currentIndex, cli>>

\* await this.deleteDocument(document.document_id) inside the try of createDocument
DeleteDocument ==
  /\ pc = "delete"
  /\ \/ /\ calls' = Append(calls, Call("delete", 0, <<>>, "ok"))
        /\ remote' = [remote EXCEPT !.deleted = TRUE]
        /\ result' = Resolved(WikiResult(document))
     \/ /\ calls' = Append(calls, Call("delete", 0, <<>>, "failed"))
        /\ result' = Resolved(document)
        /\ UNCHANGED remote
  /\ pc' = "done"
  /\ UNCHANGED <<op, args, document, blocks, convertResponse, pageBlock, i,
                 currentIndex, wiki, cli>>

\* getDocument(documentId): docx.document.get throws, answers without
\* data.document, or answers with the document
getDocument ==
  /\ pc = "idle" /\ op = "none"
  /\ op' = "getDocument"
  /\ cli' = Cli("read", 0, "running")
  /\ \/ /\ calls' = <<Call("get", 0, <<>>, "failed")>>
        /\ result' = Rejected("docx.document.get failed")
        /\ UNCHANGED <<document, remote>>
     \/ /\ calls' = <<Call("get", 0, <<>>, "empty")>>
        /\ result' = Resolved(NoValue)
        /\ UNCHANGED <<document, remote>>
     \/ /\ calls' = <<Call("get", 0, <<>>, "ok")>>
        /\ document' = [document_id |-> "doc"]
        /\ result' = Resolved([document_id |-> "doc"])
        /\ remote' \in RemoteDocs
  /\ pc' = "done"
  /\ UNCHANGED <<args, blocks, convertResponse, pageBlock, i, currentIndex, wiki>>

\* String of the raw content of the remote's document
RawContentOf(doc) == IF doc.children = <<>> THEN <<>> ELSE <<Run("o", Len(doc.children))>>

\* handleRead found the document and --raw is set: getRawContent(documentId),
\* where docx.document.rawContent throws, answers without data.content, or
\* answers with the content
getRawContent ==
  /\ op = "getDocument" /\ pc = "done" /\ cli.exit = "running"
  /\ result.state = "resolved" /\ result.value # NoValue
  /\ op' = "getRawContent"
  /\ \/ /\ calls' = Append(calls, Call("rawContent", 0, <<>>, "failed"))
        /\ result' = Rejected("docx.document.rawContent failed")
     \/ /\ calls' = Append(calls, Call("rawContent", 0, <<>>, "empty"))
        /\ result' = Resolved(<<>>)
     \/ /\ calls' = Append(calls, Call("rawContent", 0, <<>>, "ok"))
        /\ result' = Resolved(RawContentOf(remote))
  /\ UNCHANGED <<pc, args, document, blocks, convertResponse, pageBlock, i,
                 currentIndex, remote, wiki, cli>>

\* the handler's promise: .catch((err) => { ...; process.exit(1) })
ExitCode(res) == IF res.state = "rejected" THEN "1" ELSE "0"

\* handleCreate after await service.createDocument: prints the document
handleCreate ==
  /\ op = "createDocument" /\ pc = "done" /\ cli.exit = "running"
  /\ cli' = [cli EXCEPT !.exit = ExitCode(result)]
  /\ UNCHANGED <<op, pc, args, document, blocks, convertResponse, pageBlock, i,
                 currentIndex, calls, remote, wiki, result>>

\* handleRead after its last await: 'Document not found' and exit 1, or prints
handleRead ==
  /\ op \in {"getDocument", "getRawContent"} /\ pc = "done" /\ cli.exit = "running"
  /\ cli' = [cli EXCEPT !.exit = IF op = "getDocument" /\ result = Resolved(NoValue)
                                 THEN "1"
                                 ELSE ExitCode(result)]
  /\ UNCHANGED <<op, pc, args, document, blocks, convertResponse, pageBlock, i,
                 currentIndex, calls, remote, wiki, result>>

\* handleUpdate after await service.appendDocumentContent: prints "updated"
handleUpdate ==
  /\ op = "appendDocumentContent" /\ pc = "done" /\ cli.exit = "running"
  /\ cli' = [cli EXCEPT !.exit = ExitCode(result)]
  /\ UNCHANGED <<op, pc, args, document, blocks, convertResponse, pageBlock, i,
                 currentIndex, calls, remote, wiki, result>>

Next ==
  \/ createDocument
  \/ appendDocumentContent
  \/ getDocument
  \/ getRawContent
  \/ ConvertContent
  \/ GetDocumentBlocks
  \/ InsertSucceeds
  \/ InsertFails
  \/ MoveToWiki
  \/ DeleteDocument
  \/ handleCreate
  \/ handleRead
  \/ handleUpdate

Spec == Init /\ [][Next]_vars

\* ------------------------------------------------ the Block Builder alone
BuilderInit ==
  \E c \in BuilderTexts : Idle("processTextToBlocks", "builder", Args(TRUE, c, FALSE))

BuildBlocks ==
  /\ pc = "builder"
  /\ blocks' = processTextToBlocks(args.content)
  /\ pc' = "built"
  /\ UNCHANGED <<op, args, document, convertResponse, pageBlock, i, currentIndex,
                 calls, remote, wiki, result, cli>>

BuilderNext == BuildBlocks

SpecBuilder == BuilderInit /\ [][BuilderNext]_vars

\* ------------------------------------------- the Block-Tree Reshaper alone
\* lists of at most two ids
IdLists(ids) ==
  {<<>>} \cup {<<a>> : a \in ids} \cup {<<a, b>> : a \in ids, b \in ids}

\* ids a conversion response may define, and those it may refer to: the last
\* one is never defined
DefinedIds == 1..MaxIds

ReferredIds == 1..(MaxIds + 1)

RECURSIVE Ascending(_)
Ascending(S) ==
  IF S = {} THEN <<>>
  ELSE LET m == CHOOSE x \in S : \A y \in S : x <= y
       IN <<m>> \o Ascending(S \ {m})

\* convertedData: blocks for the ids of S, each with the child ids kids gives
\* it, and first_level_block_ids
ConvertedData(S, kids, first) ==
  Response("data",
           [k \in 1..Cardinality(S) |->
              RawBlock(Ascending(S)[k], kids[Ascending(S)[k]])],
           first)

ReshapeInit ==
  /\ op = "reshapeConvertedBlocks"
  /\ pc = "reshape"
  /\ args = Args(FALSE, <<>>, FALSE)
  /\ document = NoValue
  /\ blocks = <<>>
  /\ \E S \in SUBSET DefinedIds :
       \E kids \in [S -> IdLists(ReferredIds)], first \in IdLists(ReferredIds) :
         convertResponse = ConvertedData(S, kids, first)
  /\ pageBlock = NoPage
  /\ i = 0
  /\ currentIndex = 0
  /\ calls = <<>>
  /\ remote = NoRemoteDoc
  /\ wiki = NoWiki
  /\ result = Pending
  /\ cli = NoCli

\* _reshapeConvertedBlocks(convertedData) returns the nested blocks
ReshapeReturns ==
  /\ pc = "reshape"
  /\ ~ReshapeThrows(convertResponse)
  /\ blocks' = reshapeConvertedBlocks(convertResponse)
  /\ pc' = "reshaped"
  /\ UNCHANGED <<op, args, document, convertResponse, pageBlock, i, currentIndex,
                 calls, remote, wiki, result, cli>>

\* buildBlock recurses until the call stack is exhausted
ReshapeOverflows ==
  /\ pc = "reshape"
  /\ ReshapeThrows(convertResponse)
  /\ result' = Rejected("RangeError: Maximum call stack size exceeded")
  /\ pc' = "threw"
  /\ UNCHANGED <<op, args, document, blocks, convertResponse, pageBlock, i,
                 currentIndex, calls, remote, wiki, cli>>

ReshapeNext == ReshapeReturns \/ ReshapeOverflows

SpecReshape == ReshapeInit /\ [][ReshapeNext]_vars

\* ------------------------------------------------------------ properties
IsInsert(c) == c.api = "insert"

InsertCalls == SelectSeq(calls, IsInsert)

Ceil(n, m) == (n + m - 1) \div m

RECURSIVE SizesUpTo(_, _)
\* the number of blocks carried by the first k calls of log
SizesUpTo(log, k) ==
  IF k <= 0 THEN 0 ELSE Len(log[k].children) + SizesUpTo(log, k - 1)

AllInsertsOk == \A k \in 1..Len(InsertCalls) : InsertCalls[k].status = "ok"

InsertPhaseOver == pc \in {"wiki", "delete", "done"}

HasCall(a, st) == \E k \in 1..Len(calls) : calls[k].api = a /\ calls[k].status = st

\* C1: every insert-children call of createDocument carries at most
\* MAX_BLOCKS_PER_CALL blocks, and when the page block was found, N >= 1 blocks
\* were to be inserted and no call failed, ceil(N / MAX_BLOCKS_PER_CALL) calls
\* were issued; 120 blocks go out as 50, 50, 20.
BatchSizeAndCount ==
  op = "createDocument" =>
    /\ \A k \in 1..Len(InsertCalls) :
         Len(InsertCalls[k].children) <= MAX_BLOCKS_PER_CALL
    /\ (pageBlock.found /\ InsertPhaseOver /\ AllInsertsOk /\ Len(blocks) >= 1) =>
         /\ Len(InsertCalls) = Ceil(Len(blocks), MAX_BLOCKS_PER_CALL)
         /\ Len(blocks) = 120 =>
              [k \in 1..Len(InsertCalls) |-> Len(InsertCalls[k].children)] = <<50, 50, 20>>

\* createDocument has finished a chunked insert whose last batch is not full
BatchSizeAndCountWitness ==
  /\ op = "createDocument"
  /\ pc = "done"
  /\ Len(blocks) > 2 * MAX_BLOCKS_PER_CALL
  /\ Len(blocks) % MAX_BLOCKS_PER_CALL # 0
  /\ Len(InsertCalls) = 3
  /\ AllInsertsOk

\* C2: batch k of createDocument is inserted at the starting index (the page
\* block's child count) plus the number of blocks carried by batches 1..k-1.
BatchIndex ==
  op = "createDocument" =>
    \A k \in 1..Len(InsertCalls) :
      InsertCalls[k].index = Len(pageBlock.children) + SizesUpTo(InsertCalls, k - 1)

\* a third batch has been issued into a document that had children already
BatchIndexWitness ==
  /\ op = "createDocument"
  /\ Len(pageBlock.children) > 0
  /\ Len(InsertCalls) = 3
  /\ InsertCalls[3].index = Len(pageBlock.children) + 2 * MAX_BLOCKS_PER_CALL

\* C3: at most one insert-children call is outstanding, and a call is issued
\* only when every earlier one has completed successfully.
BatchesSequential ==
  /\ Cardinality({k \in 1..Len(InsertCalls) : InsertCalls[k].status = "pending"}) <= 1
  /\ \A k \in 1..(Len(InsertCalls) - 1) : InsertCalls[k].status = "ok"

\* the second batch is outstanding, the first one done
BatchesSequentialWitness ==
  /\ Len(InsertCalls) = 2
  /\ InsertCalls[1].status = "ok"
  /\ InsertCalls[2].status = "pending"

\* C4: once an insert-children call has failed it is the last remote call made
\* (no later batch, no retry, no removal), the operation has rejected, and the
\* document holds its old children followed by the blocks of the batches that
\* succeeded.
FailedBatchAborts ==
  \A k \in 1..Len(calls) :
    (calls[k].api = "insert" /\ calls[k].status = "failed") =>
      /\ k = Len(calls)
      /\ pc = "done"
      /\ result.state = "rejected"
      /\ remote.children =
           pageBlock.children
             \o SubSeq(blocks, 1, SizesUpTo(InsertCalls, Len(InsertCalls) - 1))

\* a batch after the first has failed
FailedBatchAbortsWitness ==
  /\ op = "createDocument"
  /\ Len(InsertCalls) = 2
  /\ Len(blocks) > 2 * MAX_BLOCKS_PER_CALL
  /\ InsertCalls[2].status = "failed"
  /\ Len(remote.children) = Len(pageBlock.children) + MAX_BLOCKS_PER_CALL

\* C5: appendDocumentContent appends in batches: no insert-children call
\* carries more than MAX_BLOCKS_PER_CALL blocks, the first is at the page
\* block's child count, and ceil(N / MAX_BLOCKS_PER_CALL) calls are issued.
AppendIsBatched ==
  op = "appendDocumentContent" =>
    /\ \A k \in 1..Len(InsertCalls) :
         Len(InsertCalls[k].children) <= MAX_BLOCKS_PER_CALL
    /\ Len(InsertCalls) >= 1 => InsertCalls[1].index = Len(pageBlock.children)
    /\ (pageBlock.found /\ InsertPhaseOver /\ AllInsertsOk) =>
         Len(InsertCalls) = Ceil(Len(blocks), MAX_BLOCKS_PER_CALL)

\* C6: an operation whose block listing held no page block ends in an error.
MissingPageIsError ==
  (pageBlock.listed /\ ~pageBlock.found /\ pc = "done") => result.state = "rejected"

\* C7: when the wiki-move call has failed, createDocument resolves with the
\* created document record, which carries no wiki field, and no delete call is
\* made.
MoveFailureKeepsDocument ==
  HasCall("move", "failed") =>
    /\ pc = "done"
    /\ result = Resolved(document)
    /\ DOMAIN result.value = {"document_id"}
    /\ \A k \in 1..Len(calls) : calls[k].api # "delete"

\* the wiki-move call has failed after the content was inserted
MoveFailureKeepsDocumentWitness ==
  /\ HasCall("move", "failed")
  /\ HasCall("insert", "ok")
  /\ result.state = "resolved"

\* C8: when a wiki target was supplied and the wiki-move call succeeded,
\* createDocument has issued the delete call and returns a record carrying
\* the wiki node's token with moved_to_wiki set, whatever the delete call did.
MoveSuccessReturnsNode ==
  (wiki.moveToWiki /\ wiki.wikiSpaceId /\ wiki.wikiNodeId
     /\ HasCall("move", "ok") /\ pc = "done") =>
    /\ \E k \in 1..Len(calls) : calls[k].api = "delete"
    /\ result.state = "resolved"
    /\ {"wiki_node_token", "moved_to_wiki"} \subseteq DOMAIN result.value
    /\ result.value.moved_to_wiki

\* the conversion call failed, answered nothing usable, or reshaped to nothing
ConversionFailed(resp) ==
  \/ resp.kind \in {"throw", "nodata", "nulldata"}
  \/ ReshapeThrows(resp)
  \/ reshapeConvertedBlocks(resp) = <<>>

\* C9: on the markdown path the conversion step always yields a non-empty
\* block sequence, the Block Builder's output for the same text whenever the
\* conversion failed, and never settles the operation: right after it the
\* operation is about to list the document's blocks.
ConversionFallsBack ==
  (args.markdown /\ convertResponse.kind # "none") =>
    /\ blocks # <<>>
    /\ ConversionFailed(convertResponse) => blocks = processTextToBlocks(args.content)
    /\ calls[Len(calls)].api = "convert" => (pc = "list" /\ result = Pending)

\* appendDocumentContent has inserted the plain-text blocks after the
\* conversion call threw
ConversionFallsBackWitness ==
  /\ op = "appendDocumentContent"
  /\ args.markdown
  /\ convertResponse.kind = "throw"
  /\ pc = "done"
  /\ result.state = "resolved"
  /\ Len(InsertCalls) = 1
  /\ InsertCalls[1].status = "ok"
  /\ InsertCalls[1].children = processTextToBlocks(args.content)

\* C10: no paragraph block built from a text holds more than MAX_CHUNK_SIZE
\* characters.
BlockWithinLimit ==
  pc = "built" =>
    \A k \in 1..Len(blocks) : Length(blocks[k].content) <= MAX_CHUNK_SIZE

\* a text with a line longer than the limit has been built into blocks
BlockWithinLimitWitness ==
  /\ pc = "built"
  /\ \E k \in 1..Len(SplitLines(args.content)) :
       Length(SplitLines(args.content)[k]) > MAX_CHUNK_SIZE
  /\ Len(blocks) > Len(SplitLines(args.content))

\* s + t on run-length encoded strings (adjacent runs of one class merge)
Concat(s, t) ==
  IF s = <<>> THEN t
  ELSE IF t = <<>> THEN s
  ELSE IF s[Len(s)].ch = t[1].ch
       THEN SubSeq(s, 1, Len(s) - 1)
              \o <<Run(t[1].ch, s[Len(s)].n + t[1].n)>>
              \o Tail(t)
       ELSE s \o t

RECURSIVE ConcatContents(_, _)
\* the text contents of blks[k..], concatenated in order
ConcatContents(blks, k) ==
  IF k > Len(blks) THEN <<>>
  ELSE Concat(blks[k].content, ConcatContents(blks, k + 1))

RECURSIVE WithoutTerminators(_, _)
\* the text s[k..] with every \n removed, and with it the \r right before it
WithoutTerminators(s, k) ==
  IF k > Len(s) THEN <<>>
  ELSE IF s[k].ch = "LF" THEN WithoutTerminators(s, k + 1)
  ELSE IF s[k].ch = "CR" /\ k < Len(s) /\ s[k + 1].ch = "LF"
       THEN IF s[k].n = 1 THEN WithoutTerminators(s, k + 1)
            ELSE Concat(<<Run("CR", s[k].n - 1)>>, WithoutTerminators(s, k + 1))
  ELSE Concat(<<s[k]>>, WithoutTerminators(s, k + 1))

HasNewline(s) == \E k \in 1..Len(s) : s[k].ch = "LF"

\* C11 as claimed: the concatenated block contents are the input text.
ConcatReproducesInput ==
  pc = "built" => ConcatContents(blocks, 1) = args.content

\* C11 as amended: the concatenated block contents are the input text without
\* its line terminators (each \n, and the \r right before it, is dropped).
ConcatReproducesLines ==
  pc = "built" => ConcatContents(blocks, 1) = WithoutTerminators(args.content, 1)

\* a text with a \r\n terminator and a line over the limit has been built
ConcatReproducesLinesWitness ==
  /\ pc = "built"
  /\ \E k \in 1..(Len(args.content) - 1) :
       args.content[k].ch = "CR" /\ args.content[k + 1].ch = "LF"
  /\ Len(blocks) > Len(SplitLines(args.content))

\* C12: a single line of length L is built into max(1, ceil(L / MAX_CHUNK_SIZE))
\* blocks, block k holding the characters (k-1)*MAX_CHUNK_SIZE up to
\* k*MAX_CHUNK_SIZE of the line, every block but the last exactly
\* MAX_CHUNK_SIZE long; a line of exactly MAX_CHUNK_SIZE characters is one block.
SingleLineSlices ==
  (pc = "built" /\ ~HasNewline(args.content)) =>
    LET line == args.content
        L == Length(line)
        n == IF L = 0 THEN 1 ELSE Ceil(L, MAX_CHUNK_SIZE)
    IN /\ Len(blocks) = n
       /\ \A k \in 1..Len(blocks) :
            /\ blocks[k].content =
                 Substring(line, (k - 1) * MAX_CHUNK_SIZE, Min(k * MAX_CHUNK_SIZE, L))
            /\ k < Len(blocks) => Length(blocks[k].content) = MAX_CHUNK_SIZE
       /\ L = MAX_CHUNK_SIZE => Len(blocks) = 1

\* a line over twice the limit, not a multiple of it, has been built: three
\* blocks, the last one short
SingleLineSlicesWitness ==
  /\ pc = "built"
  /\ ~HasNewline(args.content)
  /\ Length(args.content) > 2 * MAX_CHUNK_SIZE
  /\ Len(blocks) = 3
  /\ Length(blocks[3].content) < MAX_CHUNK_SIZE

\* the ids of a list that the flat map defines, in order
RECURSIVE Resolving(_, _)
Resolving(map, ids) ==
  IF ids = <<>> THEN <<>>
  ELSE IF Head(ids) \in DOMAIN map
       THEN <<Head(ids)>> \o Resolving(map, Tail(ids))
       ELSE Resolving(map, Tail(ids))

RECURSIVE ReshapedFrom(_, _, _)
\* out is, in order, one record per resolving id of ids: the record's own
\* fields without block_id, parent_id and the child-id list, and under
\* children (only when a child resolves) the same for its child ids
ReshapedFrom(map, out, ids) ==
  LET res == Resolving(map, ids)
  IN /\ Len(out) = Len(res)
     /\ \A j \in 1..Len(out) :
          LET kids == Resolving(map, map[res[j]].children)
          IN /\ DOMAIN out[j] \subseteq {"block_type", "content", "children"}
             /\ out[j].block_type = map[res[j]].block_type
             /\ out[j].content = map[res[j]].content
             /\ ("children" \in DOMAIN out[j]) = (kids # <<>>)
             /\ kids # <<>> =>
                  ReshapedFrom(map, out[j].children, map[res[j]].children)

\* C13: for every flat map and root-id list the reshaper returns, and what it
\* returns holds no block id, parent id or child-id list at any depth and is, in
\* order, the reshaped records of exactly the ids that resolve.
ReshapeStripsAndSkips ==
  pc \in {"reshaped", "threw"} =>
    /\ pc = "reshaped"
    /\ ReshapedFrom(BlockMap(convertResponse.blocks), blocks, convertResponse.first)

\* the same of the inputs on which the reshaper returns
ReshapeStripsAndSkipsIfReturns ==
  pc = "reshaped" =>
    ReshapedFrom(BlockMap(convertResponse.blocks), blocks, convertResponse.first)

\* C14: the reshaper returns for every flat map and root-id list, also when
\* the child-id references form a cycle: it never recurses without bound.
ReshapeTerminates == pc # "threw"

RECURSIVE ChildrenNeverEmpty(_, _)
\* no block of out, at any depth, has an empty children list, and each has a
\* children list exactly when its record has a child id that resolves
ChildrenNeverEmpty(map, out) ==
  \A j \in 1..Len(out) :
    LET id == out[j].content[1].n
    IN /\ ("children" \in DOMAIN out[j]) =
            (\E k \in 1..Len(map[id].children) : map[id].children[k] \in DOMAIN map)
       /\ "children" \in DOMAIN out[j] =>
            /\ out[j].children # <<>>
            /\ ChildrenNeverEmpty(map, out[j].children)

\* C18: in the reshaper's output no block at any depth has an empty children
\* list, and a record whose child ids are all dangling has no children field.
ChildrenOnlyIfResolved ==
  pc = "reshaped" => ChildrenNeverEmpty(BlockMap(convertResponse.blocks), blocks)

\* the output holds a block with a child and a block whose only child id is
\* dangling
ChildrenOnlyIfResolvedWitness ==
  /\ pc = "reshaped"
  /\ \E j \in 1..Len(blocks) :
       /\ "children" \in DOMAIN blocks[j]
       /\ \E c \in 1..Len(blocks[j].children) :
            /\ "children" \notin DOMAIN blocks[j].children[c]
            /\ BlockMap(convertResponse.blocks)[blocks[j].children[c].content[1].n].children
                 = <<MaxIds + 1>>

\* the calls of one remote api, in the order issued
CallsOf(a) == SelectSeq(calls, LAMBDA c : c.api = a)

\* C15: a create command given n collaborator entries issues one add call per
\* entry, whether or not one of them fails.
CollaboratorCallsIssued ==
  (cli.command = "create" /\ cli.exit = "0") =>
    Len(CallsOf("addCollaborator")) = cli.collaborators

\* C16: getDocument and getRawContent reject when the response carries no
\* document / no content; neither resolves with an undefined or empty value.
MissingPayloadIsError ==
  (op \in {"getDocument", "getRawContent"} /\ pc = "done"
     /\ calls[Len(calls)].status = "empty") =>
    result.state = "rejected"

\* C17: after a successful update of a document with a root container, the
\* container's children are exactly the blocks built from the content and none
\* of the earlier children remain.
UpdateReplacesBody ==
  (cli.command = "update" /\ cli.exit = "0" /\ pageBlock.found) =>
    remote.children = blocks

\* C19: when every insert call of a batched createDocument insert succeeded,
\* the root container holds its prior children followed by the blocks in
\* their original order, each exactly once.
BatchingKeepsOrder ==
  (Chunked(op, blocks) /\ pageBlock.found /\ InsertPhaseOver /\ AllInsertsOk) =>
    remote.children = pageBlock.children \o blocks

\* three batches went in after earlier children, and the blocks are not all
\* alike
BatchingKeepsOrderWitness ==
  /\ Chunked(op, blocks) /\ pageBlock.found /\ InsertPhaseOver /\ AllInsertsOk
  /\ Len(InsertCalls) = 3
  /\ pageBlock.children # <<>>
  /\ \E a \in 1..Len(blocks), b \in 1..Len(blocks) : blocks[a] # blocks[b]
  /\ remote.children = pageBlock.children \o blocks
====
